---- MODULE Spec2Model ----
(***************************************************************************)
(* Model of task_storage: the TaskStorage contract (base.py) and its       *)
(* in-memory implementation InMemoryTaskStorage (memory.py).               *)
(*                                                                         *)
(* Python dicts and lists are objects reached through references, so the   *)
(* model keeps a heap of dict objects and a heap of list objects.  The     *)
(* store (self._tasks) holds references to record dicts; the caller keeps  *)
(* the reference of the record it passed to create_task and of the         *)
(* snapshot get_task returned to it.                                       *)
(***************************************************************************)
EXTENDS Integers, Sequences, FiniteSets, TLC

VARIABLES
    tasks,   \* self._tasks: user_id -> insertion-ordered sequence of [id, ref]
    dicts,   \* heap of dict objects: reference -> (field name -> value)
    lists,   \* heap of list objects: reference -> sequence of payloads
    rec,     \* caller's reference to the record it last passed to create_task (0: none)
    snap,    \* caller's reference to the snapshot get_task last returned (0: none)
    last,    \* the last call: operation, arguments, result
    run,     \* the add_step/add_media calls made on the task created last
    nops,    \* number of calls made so far
    thr      \* the callers running concurrently: position, local variable, lock

vars == <<tasks, dicts, lists, rec, snap, last, run, nops, thr>>

----------------------------------------------------------------------------
(* Bounds of the model *)

MaxOps == 3
MaxPage == 2
MaxPerPage == 2

----------------------------------------------------------------------------
(* Values *)

DEFAULT_USER_ID == "default"

None == "None"

Users == {DEFAULT_USER_ID, "alice"}
TaskIds == {"t1", "t2"}

\* The (user_id, task_id) pairs the calls of Spec address.
Keys == {<<DEFAULT_USER_ID, "t1">>, <<"alice", "t1">>, <<"alice", "t2">>}

\* The (page, per_page) pairs the calls of Spec ask for; 100 is the default per_page.
Pagings == {<<1, 1>>, <<2, 1>>, <<1, 100>>}

ListFields == {"steps", "media"}

\* Timestamps, in lexicographic (= chronological) order; "" is the least string.
StrOrder == <<"", "2024-01-01T00:00:00Z", "2024-01-02T00:00:00Z", "2024-01-03T00:00:00Z">>

StrRank(s) == CHOOSE i \in 1..Len(StrOrder) : StrOrder[i] = s

\* Python's str < str on the timestamps of the model.
StrLess(a, b) == StrRank(a) < StrRank(b)

EmptyDict == [k \in {} |-> ""]

\* A record literal of the caller: its scalar fields and its list fields.
Lit(f, l) == [f |-> f, l |-> l]

NoLists == [k \in {} |-> <<>>]

RecEmpty == Lit(EmptyDict, NoLists)
RecPlain == Lit([status |-> "created", task |-> "open page", created_at |-> StrOrder[2]], NoLists)
RecAgent == Lit([agent |-> "agentA", created_at |-> StrOrder[3]], [steps |-> <<"s0">>])
RecLate == Lit([created_at |-> StrOrder[4], live_url |-> "http://live/x"], NoLists)

Records == {RecEmpty, RecPlain, RecAgent}

\* Records and updates of SpecAny: created_at holds a value that is no string.
RecNoneDate == Lit([status |-> "created", created_at |-> None], NoLists)
AnyRecords == {RecPlain, RecNoneDate}
UpdNoneDate == Lit([created_at |-> None], NoLists)
AnyUpdates == {UpdNoneDate}

\* The task ids, records and paging parameters of SpecList.
ListTaskIds == {"t1", "t2", "t3"}
ListRecords == {RecEmpty, RecPlain, RecAgent, RecLate}
Pages == (0 - MaxPage)..MaxPage
PerPages == 1..MaxPerPage

UpdAgent == Lit([status |-> "running", agent |-> "agentB"], NoLists)
UpdSteps == Lit(EmptyDict, [steps |-> <<>>])
UpdMedia == Lit([live_url |-> "http://live/x"], [media |-> <<"m9">>])

Updates == {UpdAgent, UpdSteps, UpdMedia}

Statuses == {"running"}
\* status: str = "finished"
DefaultFinishStatus == "finished"
FinishStatuses == {DefaultFinishStatus, "failed"}
Steps == {"s1", "s2"}
Medias == {"m1"}
Agents == {"agentC"}
Outputs == {"result"}
Errors == {"boom"}

----------------------------------------------------------------------------
(* dict and list objects *)

Max(a, b) == IF a > b THEN a ELSE b
Min(a, b) == IF a < b THEN a ELSE b

\* d[k] = v
DictSet(d, k, v) == [x \in DOMAIN d \cup {k} |-> IF x = k THEN v ELSE d[x]]

\* del d[k]
DictDel(d, k) == [x \in DOMAIN d \ {k} |-> d[x]]

\* An update that replaces the record by the partial record.
DictUpdate_replace(d, upd) == upd

\* d.update(upd)
DictUpdate(d, upd) == [x \in DOMAIN d \cup DOMAIN upd |-> IF x \in DOMAIN upd THEN upd[x] ELSE d[x]]

\* d.get(k, default)
DictGet(d, k, default) == IF k \in DOMAIN d THEN d[k] ELSE default

\* A reference no object of the heap uses.
FreshRef(used) == CHOOSE r \in 1..(Cardinality(used) + 1) : r \notin used

\* The dict the caller builds from a record literal: one new list object per list field.
StepsRef == FreshRef(DOMAIN lists)
MediaRef == FreshRef(DOMAIN lists \cup {StepsRef})

LitListRef(k) == IF k = "steps" THEN StepsRef ELSE MediaRef

LitDict(lit) == [k \in DOMAIN lit.f \cup DOMAIN lit.l |->
                    IF k \in DOMAIN lit.l THEN LitListRef(k) ELSE lit.f[k]]

LitLists(lit) == [r \in DOMAIN lists \cup {LitListRef(k) : k \in DOMAIN lit.l} |->
                    IF r \in DOMAIN lists THEN lists[r]
                    ELSE lit.l[CHOOSE k \in DOMAIN lit.l : LitListRef(k) = r]]

\* The value of a record literal: field -> string or sequence.
LitValue(lit) == [k \in DOMAIN lit.f \cup DOMAIN lit.l |->
                    IF k \in DOMAIN lit.l THEN lit.l[k] ELSE lit.f[k]]

\* The value of the dict object d in the heaps ds, ls: list references resolved.
ValueIn(ds, ls, d) == [k \in DOMAIN ds[d] |->
                         IF k \in ListFields THEN ls[ds[d][k]] ELSE ds[d][k]]

----------------------------------------------------------------------------
(* self._tasks *)

\* position of task_id in the namespace ns, 0 when absent
IndexOf(ns, t) == IF \E i \in 1..Len(ns) : ns[i].id = t
                  THEN CHOOSE i \in 1..Len(ns) : ns[i].id = t
                  ELSE 0

\* task_exists: user_id in self._tasks and task_id in self._tasks[user_id]
task_exists(t, u) == u \in DOMAIN tasks /\ IndexOf(tasks[u], t) # 0

\* self._tasks[user_id][task_id]
TaskRef(t, u) == tasks[u][IndexOf(tasks[u], t)].ref

\* An assignment that adds an entry even when the key is there already.
NsSet_appendAlways(ns, t, d) == Append(ns, [id |-> t, ref |-> d])

\* An assignment that keeps the record already stored under the key.
NsSet_keepOld(ns, t, d) == IF IndexOf(ns, t) # 0 THEN ns ELSE Append(ns, [id |-> t, ref |-> d])

\* self._tasks[user_id][task_id] = d on the namespace ns (a dict keeps a key's position)
NsSet(ns, t, d) == IF IndexOf(ns, t) # 0
                   THEN [ns EXCEPT ![IndexOf(ns, t)] = [id |-> t, ref |-> d]]
                   ELSE Append(ns, [id |-> t, ref |-> d])

\* A deletion that empties the namespace.
NsDel_clear(ns, t) == <<>>

\* A deletion that leaves the namespace as it was.
NsDel_keep(ns, t) == ns

\* del self._tasks[user_id][task_id] on the namespace ns
NsDel(ns, t) == SubSeq(ns, 1, IndexOf(ns, t) - 1) \o SubSeq(ns, IndexOf(ns, t) + 1, Len(ns))

----------------------------------------------------------------------------
(* Object lifetime and call records *)

\* The dict objects still referenced by the store or by the caller.
LiveDicts(t2, rec2, snap2) ==
    UNION {{t2[u][i].ref : i \in 1..Len(t2[u])} : u \in DOMAIN t2} \cup ({rec2, snap2} \ {0})

\* The list objects still referenced by a live dict.
LiveLists(d2, live) == UNION {{d2[r][k] : k \in DOMAIN d2[r] \cap ListFields} : r \in live}

\* The state a call leaves: unreferenced objects are reclaimed.
Commit(t2, d2, l2, rec2, snap2) ==
    /\ tasks' = t2
    /\ rec' = rec2
    /\ snap' = snap2
    /\ dicts' = [r \in LiveDicts(t2, rec2, snap2) |-> d2[r]]
    /\ lists' = [r \in LiveLists(d2, LiveDicts(t2, rec2, snap2)) |-> l2[r]]

\* A call and its outcome: raised is "" or the exception, none tells a None result.
Call(op, t, u, arg, raised, none, ret) ==
    [op |-> op, task_id |-> t, user_id |-> u, arg |-> arg,
     raised |-> raised, none |-> none, ret |-> ret]

NoRun == [user_id |-> "", task_id |-> "", steps_ok |-> FALSE, steps |-> <<>>,
          media_ok |-> FALSE, media |-> <<>>]

\* The run of the task created last goes on over calls on that task only.
RunKeep(t, u) == IF run.user_id = u /\ run.task_id = t THEN run ELSE NoRun

\* The concurrent callers: two of add_task_step and one of delete_task, all on one task.
Adders == {"A", "B"}
Threads == Adders \cup {"D"}
ConcUser == DEFAULT_USER_ID
ConcTask == "t1"
Payload(x) == IF x = "A" THEN "s1" ELSE "s2"

\* No caller has started; sync tells whether the callers run under one external lock.
IdleThreads(sync) ==
    [sync |-> sync, lock |-> "none", pc |-> [x \in Threads |-> "idle"],
     task |-> [x \in Adders |-> 0], landed |-> [x \in Adders |-> FALSE]]

\* self._tasks = {}
InitStore ==
    /\ tasks = [u \in {} |-> <<>>]
    /\ dicts = [r \in {} |-> EmptyDict]
    /\ lists = [r \in {} |-> <<>>]
    /\ rec = 0
    /\ snap = 0
    /\ last = Call("init", "", "", None, "", TRUE, None)
    /\ run = NoRun
    /\ nops = 0

Init == InitStore /\ thr = IdleThreads(TRUE)

InitConc == InitStore /\ thr \in {IdleThreads(sync) : sync \in BOOLEAN}

----------------------------------------------------------------------------
(* InMemoryTaskStorage *)

\* The namespaces after "if user_id not in self._tasks: self._tasks[user_id] = {}".
EnsureUser(u) == [v \in DOMAIN tasks \cup {u} |-> IF v \in DOMAIN tasks THEN tasks[v] ELSE <<>>]

\* self._tasks[user_id][task_id] = task_data: the reference is stored, not a copy
StoreTask(t, d, u) == [EnsureUser(u) EXCEPT ![u] = NsSet(EnsureUser(u)[u], t, d)]

\* A mutator that stores an empty record for the missing task instead of raising.
RaiseKeyError_autoCreate(op, t, u, arg) ==
    /\ Commit(StoreTask(t, FreshRef(DOMAIN dicts), u),
              [r \in DOMAIN dicts \cup {FreshRef(DOMAIN dicts)} |->
                 IF r \in DOMAIN dicts THEN dicts[r] ELSE EmptyDict],
              lists, rec, snap)
    /\ last' = Call(op, t, u, arg, "", TRUE, None)
    /\ run' = run

\* raise KeyError(f"Task {task_id} not found for user {user_id}"): nothing is written
RaiseKeyError(op, t, u, arg) ==
    /\ last' = Call(op, t, u, arg, "KeyError", FALSE, None)
    /\ UNCHANGED <<tasks, dicts, lists, rec, snap, run>>

\* create_task(task_id, task_data, user_id), task_data a new dict built from lit
\* (fresh = TRUE) or the dict the caller passed to the previous create_task.
create_task(t, fresh, lit, u) ==
    /\ ~fresh => rec # 0
    /\ LET d  == IF fresh THEN FreshRef(DOMAIN dicts) ELSE rec
           d2 == IF fresh
                 THEN [r \in DOMAIN dicts \cup {d} |-> IF r = d THEN LitDict(lit) ELSE dicts[r]]
                 ELSE dicts
           l2 == IF fresh THEN LitLists(lit) ELSE lists
       IN /\ Commit(StoreTask(t, d, u), d2, l2, d, snap)
          /\ last' = Call("create_task", t, u, ValueIn(d2, l2, d), "", TRUE, None)
          /\ run' = [user_id |-> u, task_id |-> t,
                     steps_ok |-> "steps" \notin DOMAIN d2[d], steps |-> <<>>,
                     media_ok |-> "media" \notin DOMAIN d2[d], media |-> <<>>]

\* A snapshot that copies every field, the agent too.
SnapshotNoAgent_keepAgent(d) == d

\* {k: v for k, v in task_data.items() if k != "agent"}
SnapshotNoAgent(d) == [k \in DOMAIN d \ {"agent"} |-> d[k]]

\* get_task(task_id, user_id): the caller keeps the snapshot it is given
get_task(t, u) ==
    /\ IF u \notin DOMAIN tasks \/ IndexOf(tasks[u], t) = 0
       THEN /\ Commit(tasks, dicts, lists, rec, 0)
            /\ last' = Call("get_task", t, u, None, "", TRUE, None)
       ELSE LET r  == FreshRef(DOMAIN dicts)
                d2 == [x \in DOMAIN dicts \cup {r} |->
                         IF x = r THEN SnapshotNoAgent(dicts[TaskRef(t, u)]) ELSE dicts[x]]
            IN /\ Commit(tasks, d2, lists, rec, r)
               /\ last' = Call("get_task", t, u, None, "", FALSE, ValueIn(d2, lists, r))
    /\ run' = run

\* update_task(task_id, update_data, user_id), update_data built from lit
update_task(t, lit, u) ==
    /\ IF ~task_exists(t, u)
       THEN RaiseKeyError("update_task", t, u, LitValue(lit))
       ELSE LET d  == TaskRef(t, u)
                d2 == [dicts EXCEPT ![d] = DictUpdate(dicts[d], LitDict(lit))]
            IN /\ Commit(tasks, d2, LitLists(lit), rec, snap)
               /\ last' = Call("update_task", t, u, LitValue(lit), "", TRUE, None)
               /\ run' = [RunKeep(t, u) EXCEPT
                            !.steps_ok = @ /\ "steps" \notin DOMAIN lit.l,
                            !.media_ok = @ /\ "media" \notin DOMAIN lit.l]

\* delete_task(task_id, user_id)
delete_task(t, u) ==
    /\ IF ~task_exists(t, u)
       THEN /\ last' = Call("delete_task", t, u, None, "", FALSE, FALSE)
            /\ UNCHANGED <<tasks, dicts, lists, rec, snap, run>>
       ELSE /\ Commit([tasks EXCEPT ![u] = NsDel(tasks[u], t)], dicts, lists, rec, snap)
            /\ last' = Call("delete_task", t, u, None, "", FALSE, TRUE)
            /\ run' = NoRun

\* task_exists(task_id, user_id) called by the caller
task_exists_call(t, u) ==
    /\ last' = Call("task_exists", t, u, None, "", FALSE, task_exists(t, u))
    /\ UNCHANGED <<tasks, dicts, lists, rec, snap, run>>

\* self._tasks[user_id][task_id][field] = value, after the existence check
SetField(op, t, field, value, u) ==
    IF ~task_exists(t, u)
    THEN RaiseKeyError(op, t, u, value)
    ELSE /\ Commit(tasks, [dicts EXCEPT ![TaskRef(t, u)] = DictSet(@, field, value)],
                   lists, rec, snap)
         /\ last' = Call(op, t, u, value, "", TRUE, None)
         /\ run' = RunKeep(t, u)

update_task_status(t, status, u) ==
    /\ SetField("update_task_status", t, "status", status, u)

set_task_agent(t, agent, u) ==
    /\ SetField("set_task_agent", t, "agent", agent, u)

set_task_output(t, output, u) ==
    /\ SetField("set_task_output", t, "output", output, u)

set_task_error(t, error, u) ==
    /\ SetField("set_task_error", t, "error", error, u)

\* An append that skips an item the list holds already.
ListAppend_once(l, item) ==
    IF \E i \in 1..Len(l) : l[i] = item THEN l ELSE Append(l, item)

\* An append that puts the item in front.
ListAppend_prepend(l, item) == <<item>> \o l

\* task[field].append(item) on the list object l
ListAppend(l, item) == Append(l, item)

\* if field not in task: task[field] = []; task[field].append(item)
AppendTo(op, t, field, item, u) ==
    IF ~task_exists(t, u)
    THEN RaiseKeyError(op, t, u, item)
    ELSE LET d  == TaskRef(t, u)
             l  == IF field \in DOMAIN dicts[d] THEN dicts[d][field] ELSE FreshRef(DOMAIN lists)
             d2 == [dicts EXCEPT ![d] = DictSet(@, field, l)]
             l2 == [x \in DOMAIN lists \cup {l} |->
                      IF x = l
                      THEN ListAppend(IF l \in DOMAIN lists THEN lists[l] ELSE <<>>, item)
                      ELSE lists[x]]
         IN /\ Commit(tasks, d2, l2, rec, snap)
            /\ last' = Call(op, t, u, item, "", TRUE, None)
            /\ run' = IF run.user_id = u /\ run.task_id = t
                      THEN [run EXCEPT ![field] = Append(@, item)]
                      ELSE NoRun

add_task_step(t, step_data, u) ==
    /\ AppendTo("add_task_step", t, "steps", step_data, u)

add_task_media(t, media_data, u) ==
    /\ AppendTo("add_task_media", t, "media", media_data, u)

\* get_task_agent(task_id, user_id): self._tasks[user_id][task_id].get("agent")
get_task_agent(t, u) ==
    /\ LET a == IF task_exists(t, u) THEN DictGet(dicts[TaskRef(t, u)], "agent", None) ELSE None
       IN last' = Call("get_task_agent", t, u, None, "", a = None, a)
    /\ UNCHANGED <<tasks, dicts, lists, rec, snap, run>>

\* datetime.now(UTC).isoformat() for the clock readings of the model
Clock == {1, 2}
Isoformat(now) == <<"2024-01-04T09:30:00.000123+00:00", "2024-01-05T17:45:10.250000+00:00">>[now]

\* A stamp without the "Z" suffix.
FinishedStamp_noZ(now) == Isoformat(now)

\* datetime.now(UTC).isoformat() + "Z"
FinishedStamp(now) == Isoformat(now) \o "Z"

\* mark_task_finished(task_id, user_id, status)
mark_task_finished(t, u, status, now) ==
    /\ IF ~task_exists(t, u)
       THEN RaiseKeyError("mark_task_finished", t, u, status)
       ELSE LET d  == TaskRef(t, u)
                d1 == DictSet(dicts[d], "status", status)
                d2 == DictSet(d1, "finished_at", FinishedStamp(now))
            IN /\ Commit(tasks, [dicts EXCEPT ![d] = d2], lists, rec, snap)
               /\ last' = Call("mark_task_finished", t, u, status, "", TRUE, None)
               /\ run' = RunKeep(t, u)

----------------------------------------------------------------------------
(* list_tasks *)

\* key=lambda x: x[1].get("created_at", "")
SortKey(e) == DictGet(dicts[e.ref], "created_at", "")

\* sorted() compares every item with another one as soon as there are two, and "<"
\* between a string and None, or between None and None, raises TypeError
SortRaises(items) == Len(items) >= 2 /\ \E i \in 1..Len(items) : SortKey(items[i]) = None

\* e put behind every entry whose key is not less than its own
InsertDesc(sorted, e) ==
    LET n == Cardinality({i \in 1..Len(sorted) : ~StrLess(SortKey(sorted[i]), SortKey(e))})
    IN SubSeq(sorted, 1, n) \o <<e>> \o SubSeq(sorted, n + 1, Len(sorted))

\* sorted(items, key=..., reverse=True): descending, entries of equal key in their given order
RECURSIVE SortedDesc(_)
SortedDesc(items) ==
    IF items = <<>> THEN <<>>
    ELSE InsertDesc(SortedDesc(SubSeq(items, 1, Len(items) - 1)), items[Len(items)])

\* a slice bound of Python: negative bounds count from the end, then clamp to 0..n
SliceBound(i, n) == IF i < 0 THEN Max(i + n, 0) ELSE Min(i, n)

\* s[start:stop]
PySlice(s, start, stop) ==
    SubSeq(s, SliceBound(start, Len(s)) + 1, SliceBound(stop, Len(s)))

\* A slice that takes page for a 0-based page number.
Paginate_zeroBased(sorted, page, per_page) ==
    PySlice(sorted, page * per_page, page * per_page + per_page)

\* sorted_tasks[start_idx:end_idx] with start_idx = (page - 1) * per_page
Paginate(sorted, page, per_page) ==
    PySlice(sorted, (page - 1) * per_page, (page - 1) * per_page + per_page)

\* the summary of one task
TaskSummary(e) ==
    [id |-> e.id,
     status |-> DictGet(dicts[e.ref], "status", "unknown"),
     task |-> DictGet(dicts[e.ref], "task", ""),
     created_at |-> DictGet(dicts[e.ref], "created_at", ""),
     finished_at |-> DictGet(dicts[e.ref], "finished_at", None),
     live_url |-> DictGet(dicts[e.ref], "live_url", "/live/" \o e.id)]

\* A list_tasks that answers for an unknown namespace with the default paging.
ListResult_defaultPaging(u, page, per_page) ==
    IF u \notin DOMAIN tasks
    THEN [tasks |-> <<>>, total |-> 0, page |-> 1, per_page |-> 100]
    ELSE LET paginated == Paginate(SortedDesc(tasks[u]), page, per_page)
         IN [tasks |-> [i \in 1..Len(paginated) |-> TaskSummary(paginated[i])],
             total |-> Len(tasks[u]),
             page |-> page,
             per_page |-> per_page]

\* the value list_tasks(user_id, page, per_page) returns
ListResult(u, page, per_page) ==
    IF u \notin DOMAIN tasks
    THEN [tasks |-> <<>>, total |-> 0, page |-> page, per_page |-> per_page]
    ELSE LET paginated == Paginate(SortedDesc(tasks[u]), page, per_page)
         IN [tasks |-> [i \in 1..Len(paginated) |-> TaskSummary(paginated[i])],
             total |-> Len(tasks[u]),
             page |-> page,
             per_page |-> per_page]

list_tasks(u, page, per_page) ==
    /\ last' = IF u \in DOMAIN tasks /\ SortRaises(tasks[u])
               THEN Call("list_tasks", "", u, [page |-> page, per_page |-> per_page],
                         "TypeError", TRUE, None)
               ELSE Call("list_tasks", "", u, [page |-> page, per_page |-> per_page], "",
                         FALSE, ListResult(u, page, per_page))
    /\ UNCHANGED <<tasks, dicts, lists, rec, snap, run>>

----------------------------------------------------------------------------
(* The caller's own writes to the objects it holds references to *)

Held(which) == IF which = "rec" THEN rec ELSE snap

CallerEdits == {Lit([status |-> "edited"], NoLists), Lit(EmptyDict, [steps |-> <<>>])}

\* held.update(lit): fields added or replaced
caller_set(which, lit) ==
    /\ Held(which) # 0
    /\ Commit(tasks, [dicts EXCEPT ![Held(which)] = DictUpdate(@, LitDict(lit))],
              LitLists(lit), rec, snap)
    /\ last' = Call("caller_set", "", "", which, "", TRUE, None)
    /\ run' = NoRun

\* del held[field]
caller_del(which, field) ==
    /\ Held(which) # 0
    /\ field \in DOMAIN dicts[Held(which)]
    /\ Commit(tasks, [dicts EXCEPT ![Held(which)] = DictDel(@, field)], lists, rec, snap)
    /\ last' = Call("caller_del", "", "", which, "", TRUE, None)
    /\ run' = NoRun

\* held[field].append(item)
caller_append(which, field, item) ==
    /\ Held(which) # 0
    /\ field \in DOMAIN dicts[Held(which)]
    /\ Commit(tasks, dicts,
              [lists EXCEPT ![dicts[Held(which)][field]] = ListAppend(@, item)], rec, snap)
    /\ last' = Call("caller_append", "", "", which, "", TRUE, None)
    /\ run' = NoRun

----------------------------------------------------------------------------
(* Specifications *)

\* one more call, while the budget of calls lasts
Step == nops < MaxOps /\ nops' = nops + 1 /\ UNCHANGED thr

Next ==
    \/ \E k \in Keys, lit \in Records : Step /\ create_task(k[2], TRUE, lit, k[1])
    \/ \E k \in Keys : Step /\ create_task(k[2], FALSE, RecEmpty, k[1])
    \/ \E k \in Keys : Step /\ get_task(k[2], k[1])
    \/ \E k \in Keys, lit \in Updates : Step /\ update_task(k[2], lit, k[1])
    \/ \E k \in Keys : Step /\ delete_task(k[2], k[1])
    \/ \E u \in Users, p \in Pagings : Step /\ list_tasks(u, p[1], p[2])
    \/ \E k \in Keys : Step /\ task_exists_call(k[2], k[1])
    \/ \E k \in Keys, x \in Statuses : Step /\ update_task_status(k[2], x, k[1])
    \/ \E k \in Keys, x \in Steps : Step /\ add_task_step(k[2], x, k[1])
    \/ \E k \in Keys, x \in Medias : Step /\ add_task_media(k[2], x, k[1])
    \/ \E k \in Keys : Step /\ get_task_agent(k[2], k[1])
    \/ \E k \in Keys, x \in Agents : Step /\ set_task_agent(k[2], x, k[1])
    \/ \E k \in Keys, x \in Outputs : Step /\ set_task_output(k[2], x, k[1])
    \/ \E k \in Keys, x \in Errors : Step /\ set_task_error(k[2], x, k[1])
    \/ \E k \in Keys, x \in FinishStatuses, now \in Clock :
          Step /\ mark_task_finished(k[2], k[1], x, now)
    \/ \E w \in {"rec", "snap"}, lit \in CallerEdits : Step /\ caller_set(w, lit)
    \/ \E w \in {"rec", "snap"}, f \in {"status", "steps"} : Step /\ caller_del(w, f)
    \/ \E w \in {"rec", "snap"}, f \in ListFields : Step /\ caller_append(w, f, "x1")

Spec == Init /\ [][Next]_vars

\* The store seen through list_tasks: one user's tasks are created one after the
\* other, each under a new id, and both users' tasks are listed.
NextList ==
    \/ \E t \in ListTaskIds, lit \in ListRecords :
          ~task_exists(t, "alice") /\ create_task(t, TRUE, lit, "alice") /\ UNCHANGED <<nops, thr>>
    \/ \E u \in Users, page \in Pages, per_page \in PerPages :
          list_tasks(u, page, per_page) /\ UNCHANGED <<nops, thr>>

SpecList == Init /\ [][NextList]_vars

\* The store holding records whose created_at is None, set by create_task or by
\* update_task, under the four read operations.
NextAny ==
    \/ \E k \in Keys, lit \in AnyRecords : Step /\ create_task(k[2], TRUE, lit, k[1])
    \/ \E k \in Keys, lit \in AnyUpdates : Step /\ update_task(k[2], lit, k[1])
    \/ \E k \in Keys : Step /\ get_task(k[2], k[1])
    \/ \E k \in Keys : Step /\ get_task_agent(k[2], k[1])
    \/ \E k \in Keys : Step /\ task_exists_call(k[2], k[1])
    \/ \E u \in Users, p \in Pagings : Step /\ list_tasks(u, p[1], p[2])

SpecAny == Init /\ [][NextAny]_vars

----------------------------------------------------------------------------
(* add_task_step and delete_task statement by statement, for concurrent callers *)

\* the positions at which a call has returned or raised
Final == {"ok", "raised", "true", "false"}

\* under external synchronisation a caller runs only while no other caller is inside a call
MayStep(x) == thr.sync => thr.lock \in {"none", x}

\* caller x goes to position label; it holds the lock until its call is over
Moved(x, label) ==
    [thr EXCEPT !.pc[x] = label,
                !.lock = IF thr.sync /\ label \notin Final THEN x ELSE "none"]

\* A test that finds the field missing every time.
NeedsInit_always(d) == TRUE

\* if "steps" not in task
NeedsInit(d) == "steps" \notin DOMAIN d

\* the task is created once, in the empty store
conc_create(lit) ==
    /\ DOMAIN tasks = {}
    /\ thr.lock = "none"
    /\ create_task(ConcTask, TRUE, lit, ConcUser)
    /\ UNCHANGED <<nops, thr>>

\* if not self.task_exists(task_id, user_id): raise KeyError(...)
add_check(x) ==
    /\ thr.pc[x] = "idle"
    /\ MayStep(x)
    /\ thr' = Moved(x, IF task_exists(ConcTask, ConcUser) THEN "fetch" ELSE "raised")
    /\ UNCHANGED <<tasks, dicts, lists, rec, snap, last, run, nops>>

\* task = self._tasks[user_id][task_id]: KeyError when the task is gone by now
add_fetch(x) ==
    /\ thr.pc[x] = "fetch"
    /\ MayStep(x)
    /\ thr' = IF task_exists(ConcTask, ConcUser)
              THEN [Moved(x, "test") EXCEPT !.task[x] = TaskRef(ConcTask, ConcUser)]
              ELSE Moved(x, "raised")
    /\ UNCHANGED <<tasks, dicts, lists, rec, snap, last, run, nops>>

\* if "steps" not in task:
add_test(x) ==
    /\ thr.pc[x] = "test"
    /\ MayStep(x)
    /\ thr' = Moved(x, IF NeedsInit(dicts[thr.task[x]]) THEN "init" ELSE "append")
    /\ UNCHANGED <<tasks, dicts, lists, rec, snap, last, run, nops>>

\* task["steps"] = []
add_init(x) ==
    /\ thr.pc[x] = "init"
    /\ MayStep(x)
    /\ LET l == FreshRef(DOMAIN lists)
       IN /\ dicts' = [dicts EXCEPT ![thr.task[x]] = DictSet(@, "steps", l)]
          /\ lists' = [r \in DOMAIN lists \cup {l} |-> IF r = l THEN <<>> ELSE lists[r]]
    /\ thr' = Moved(x, "append")
    /\ UNCHANGED <<tasks, rec, snap, last, run, nops>>

\* task["steps"].append(step_data), on the list the record holds at this moment; landed
\* tells whether the record appended to is the one the store holds
add_append(x) ==
    /\ thr.pc[x] = "append"
    /\ MayStep(x)
    /\ lists' = [lists EXCEPT ![dicts[thr.task[x]]["steps"]] = ListAppend(@, Payload(x))]
    /\ thr' = [Moved(x, "ok") EXCEPT
                 !.landed[x] = /\ task_exists(ConcTask, ConcUser)
                               /\ TaskRef(ConcTask, ConcUser) = thr.task[x]]
    /\ UNCHANGED <<tasks, dicts, rec, snap, last, run, nops>>

\* if user_id not in self._tasks or task_id not in self._tasks[user_id]: return False
del_check ==
    /\ thr.pc["D"] = "idle"
    /\ MayStep("D")
    /\ thr' = Moved("D", IF task_exists(ConcTask, ConcUser) THEN "del" ELSE "false")
    /\ UNCHANGED <<tasks, dicts, lists, rec, snap, last, run, nops>>

\* del self._tasks[user_id][task_id]; return True
del_del ==
    /\ thr.pc["D"] = "del"
    /\ MayStep("D")
    /\ tasks' = [tasks EXCEPT ![ConcUser] = NsDel(@, ConcTask)]
    /\ thr' = Moved("D", "true")
    /\ UNCHANGED <<dicts, lists, rec, snap, last, run, nops>>

NextConc ==
    \/ \E lit \in {RecEmpty, RecAgent} : conc_create(lit)
    \/ \E x \in Adders : add_check(x)
    \/ \E x \in Adders : add_fetch(x)
    \/ \E x \in Adders : add_test(x)
    \/ \E x \in Adders : add_init(x)
    \/ \E x \in Adders : add_append(x)
    \/ del_check
    \/ del_del

SpecConc == InitConc /\ [][NextConc]_vars

----------------------------------------------------------------------------
(* What the read operations show *)

MutatorOps == {"update_task", "update_task_status", "add_task_step", "add_task_media",
               "set_task_agent", "set_task_output", "set_task_error", "mark_task_finished"}

ReadOps == {"get_task", "get_task_agent", "task_exists", "list_tasks"}

AgentHandles == {"agentA", "agentB", "agentC"}

\* what get_task(t, u) returns in the current state: None, or the snapshot's value
GetResult(t, u) ==
    IF u \notin DOMAIN tasks \/ IndexOf(tasks[u], t) = 0
    THEN [none |-> TRUE, ret |-> EmptyDict]
    ELSE [none |-> FALSE,
          ret |-> [k \in DOMAIN SnapshotNoAgent(dicts[TaskRef(t, u)]) |->
                     IF k \in ListFields THEN lists[dicts[TaskRef(t, u)][k]]
                     ELSE dicts[TaskRef(t, u)][k]]]

\* what get_task_agent(t, u) returns in the current state
AgentResult(t, u) ==
    IF task_exists(t, u) THEN DictGet(dicts[TaskRef(t, u)], "agent", None) ELSE None

\* the sequence get_task(t, u)[field] shows, empty when the task or the field is missing
Shown(t, u, field) ==
    IF task_exists(t, u) /\ field \in DOMAIN dicts[TaskRef(t, u)]
    THEN lists[dicts[TaskRef(t, u)][field]]
    ELSE <<>>

HasField(t, u, field) == task_exists(t, u) /\ field \in DOMAIN dicts[TaskRef(t, u)]

IsPrefix(a, b) == Len(a) <= Len(b) /\ SubSeq(b, 1, Len(a)) = a

----------------------------------------------------------------------------
(* C1..C6 *)

\* C1: a mutator called on a (user_id, task_id) pair that does not exist raises
\* KeyError and leaves the store as it was: no task and no namespace is added.
C1_MutatorOnMissingFails ==
    [][\A k \in Users \X TaskIds :
          (/\ last'.op \in MutatorOps
           /\ last'.user_id = k[1] /\ last'.task_id = k[2]
           /\ ~task_exists(k[2], k[1]))
          => /\ last'.raised = "KeyError"
             /\ tasks' = tasks /\ dicts' = dicts /\ lists' = lists
             /\ DOMAIN tasks' = DOMAIN tasks
             /\ ~task_exists(k[2], k[1])']_vars

\* A mutator has failed on a task of the default user that was created and deleted.
C1_Witness ==
    /\ last.op \in MutatorOps
    /\ last.raised = "KeyError"
    /\ last.user_id = DEFAULT_USER_ID
    /\ DEFAULT_USER_ID \in DOMAIN tasks
    /\ tasks[DEFAULT_USER_ID] = <<>>

\* C2: nothing get_task or list_tasks returns has an agent field or holds an agent handle.
C2_NoAgentInReads ==
    /\ (last.op = "get_task" /\ ~last.none) =>
          /\ "agent" \notin DOMAIN last.ret
          /\ \A k \in DOMAIN last.ret :
                IF k \in ListFields
                THEN \A i \in 1..Len(last.ret[k]) : last.ret[k][i] \notin AgentHandles
                ELSE last.ret[k] \notin AgentHandles
    /\ last.op = "list_tasks" =>
          \A i \in 1..Len(last.ret.tasks) :
             /\ "agent" \notin DOMAIN last.ret.tasks[i]
             /\ \A k \in DOMAIN last.ret.tasks[i] : last.ret.tasks[i][k] \notin AgentHandles

\* get_task has returned the snapshot of a task that holds an agent handle.
C2_Witness ==
    /\ last.op = "get_task"
    /\ ~last.none
    /\ AgentResult(last.task_id, last.user_id) \in AgentHandles

\* C3: whatever the caller does to the snapshot get_task gave it, get_task goes on
\* returning what it returned before.
C3_SnapshotIsolated ==
    [][(last'.op \in {"caller_set", "caller_del", "caller_append"} /\ last'.arg = "snap")
         => \A k \in Keys : GetResult(k[2], k[1])' = GetResult(k[2], k[1])]_vars

\* C4: a create, delete or mutator under one user leaves what exists, get, get_agent
\* and list show for every other user unchanged.
C4_UsersIndependent ==
    [][\A a \in Users :
          (last'.op \in MutatorOps \cup {"create_task", "delete_task"} /\ last'.user_id = a)
          => \A b \in Users \ {a} :
                /\ \A t \in TaskIds :
                      /\ task_exists(t, b)' = task_exists(t, b)
                      /\ GetResult(t, b)' = GetResult(t, b)
                      /\ AgentResult(t, b)' = AgentResult(t, b)
                /\ \A p \in Pagings : ListResult(b, p[1], p[2])' = ListResult(b, p[1], p[2])]_vars

\* C5: the task exists right after create_task and does not right after delete_task;
\* delete_task returns whether the task existed before the call and never raises.
C5_ExistsAfterCreateDelete ==
    [][\A k \in Users \X TaskIds :
          (last'.user_id = k[1] /\ last'.task_id = k[2]) =>
             /\ last'.op = "create_task" =>
                   /\ last'.raised = ""
                   /\ task_exists(k[2], k[1])'
             /\ last'.op = "delete_task" =>
                   /\ last'.raised = ""
                   /\ last'.ret = task_exists(k[2], k[1])
                   /\ ~task_exists(k[2], k[1])']_vars

\* delete_task has removed a task and returned true.
C5_Witness == last.op = "delete_task" /\ last.ret /\ nops >= 2

\* C6: right after create_task, get_task returns the record passed in without its
\* agent field, whatever was stored under the id before.
C6_GetAfterCreate ==
    last.op = "create_task" =>
        GetResult(last.task_id, last.user_id) =
            [none |-> FALSE, ret |-> [k \in DOMAIN last.arg \ {"agent"} |-> last.arg[k]]]

\* A record with an agent field has been created over an earlier record of the same id.
C6_Witness ==
    /\ last.op = "create_task"
    /\ "agent" \in DOMAIN last.arg
    /\ nops >= 2
    /\ Len(tasks[last.user_id]) = 1
    /\ Cardinality(DOMAIN tasks) = 1

----------------------------------------------------------------------------
(* C7, C8: steps and media *)

\* While only calls on the task created last were made since its creation, the field
\* it was created without holds the payloads added to it, in the order of the calls.
RunInv ==
    (run.task_id # "" /\ task_exists(run.task_id, run.user_id)) =>
        /\ run.steps_ok =>
              IF run.steps = <<>> THEN ~HasField(run.task_id, run.user_id, "steps")
              ELSE /\ HasField(run.task_id, run.user_id, "steps")
                   /\ Shown(run.task_id, run.user_id, "steps") = run.steps
        /\ run.media_ok =>
              IF run.media = <<>> THEN ~HasField(run.task_id, run.user_id, "media")
              ELSE /\ HasField(run.task_id, run.user_id, "media")
                   /\ Shown(run.task_id, run.user_id, "media") = run.media

\* C7: add_task_step puts its payload behind the steps the task has (a task without
\* a steps field gets the one-element sequence) and leaves media alone, add_task_media
\* likewise for media; so N calls on a task created without the field, with other
\* mutators of that task between them, leave the N payloads in the order of the calls.
C7_AppendInOrder ==
    [][/\ \A k \in Users \X TaskIds :
             (last'.raised = "" /\ last'.user_id = k[1] /\ last'.task_id = k[2]) =>
                /\ last'.op = "add_task_step" =>
                      /\ HasField(k[2], k[1], "steps")'
                      /\ Shown(k[2], k[1], "steps")' = Append(Shown(k[2], k[1], "steps"), last'.arg)
                      /\ HasField(k[2], k[1], "media")' = HasField(k[2], k[1], "media")
                      /\ Shown(k[2], k[1], "media")' = Shown(k[2], k[1], "media")
                /\ last'.op = "add_task_media" =>
                      /\ HasField(k[2], k[1], "media")'
                      /\ Shown(k[2], k[1], "media")' = Append(Shown(k[2], k[1], "media"), last'.arg)
                      /\ HasField(k[2], k[1], "steps")' = HasField(k[2], k[1], "steps")
                      /\ Shown(k[2], k[1], "steps")' = Shown(k[2], k[1], "steps")
       /\ RunInv']_vars

\* Two steps have been added to a task that was created without a steps field.
C7_Witness ==
    /\ run.steps_ok
    /\ Len(run.steps) >= 2
    /\ run.steps[1] # run.steps[2]
    /\ last.op = "add_task_step"
    /\ HasField(run.task_id, run.user_id, "steps")

\* C8 as claimed: over every mutator and read operation, update_task included, the
\* steps and the media a task shows before the call are a prefix of those it shows after.
C8_AppendOnlyAllOps ==
    [][last'.op \in MutatorOps \cup ReadOps =>
          \A k \in Users \X TaskIds, f \in ListFields :
             (task_exists(k[2], k[1]) /\ task_exists(k[2], k[1])') =>
                IsPrefix(Shown(k[2], k[1], f), Shown(k[2], k[1], f)')]_vars

\* C8 amended: the same, over every mutator and read operation other than an
\* update_task whose partial record has the field itself (that call replaces it).
C8_AppendOnlyExceptUpdate ==
    [][last'.op \in MutatorOps \cup ReadOps =>
          \A k \in Users \X TaskIds, f \in ListFields :
             (/\ task_exists(k[2], k[1]) /\ task_exists(k[2], k[1])'
              /\ ~(last'.op = "update_task" /\ f \in DOMAIN last'.arg)) =>
                IsPrefix(Shown(k[2], k[1], f), Shown(k[2], k[1], f)')]_vars

\* update_task without a steps field has been applied to a task that has steps.
C8_Witness ==
    /\ last.op = "update_task"
    /\ last.raised = ""
    /\ "steps" \notin DOMAIN last.arg
    /\ Shown(last.task_id, last.user_id, "steps") # <<>>

----------------------------------------------------------------------------
(* C9, C10: list_tasks *)

NTasks(u) == IF u \in DOMAIN tasks THEN Len(tasks[u]) ELSE 0

\* every summary of the user, in the order list_tasks gives them
FullListing(u) == ListResult(u, 1, NTasks(u) + 1).tasks

CreatedAtOf(u, t) == DictGet(dicts[TaskRef(t, u)], "created_at", "")

\* the user has three tasks, created with strictly increasing created_at
ThreeIncreasing(u) ==
    /\ NTasks(u) = 3
    /\ StrLess(CreatedAtOf(u, tasks[u][1].id), CreatedAtOf(u, tasks[u][2].id))
    /\ StrLess(CreatedAtOf(u, tasks[u][2].id), CreatedAtOf(u, tasks[u][3].id))

\* C9: for page >= 1 and per_page >= 1 list_tasks returns positions
\* (page-1)*per_page .. min(page*per_page, n)-1 of the user's tasks in descending
\* created_at order, total = n and the paging parameters; the pages together hold
\* every task once; three tasks of increasing created_at come as two newest, then oldest.
C9_Pagination ==
    \A u \in Users, page \in 1..(MaxPage + 1), pp \in PerPages :
       LET n == NTasks(u)
           r == ListResult(u, page, pp)
           F == FullListing(u)
       IN /\ r.total = n /\ r.page = page /\ r.per_page = pp
          /\ Len(F) = n
          /\ \A i \in 1..n : \E j \in 1..n : F[j].id = tasks[u][i].id
          /\ \A i \in 1..n : F[i].created_at = CreatedAtOf(u, F[i].id)
          /\ \A i \in 1..(n - 1) : ~StrLess(F[i].created_at, F[i + 1].created_at)
          /\ r.tasks = SubSeq(F, (page - 1) * pp + 1, Min(page * pp, n))
          /\ \A j \in 1..n :
                /\ ((j - 1) \div pp) + 1 <= (n + pp - 1) \div pp
                /\ ListResult(u, ((j - 1) \div pp) + 1, pp).tasks[((j - 1) % pp) + 1] = F[j]
          /\ ThreeIncreasing(u) =>
                /\ ListResult(u, 1, 2).total = 3
                /\ [i \in 1..2 |-> ListResult(u, 1, 2).tasks[i].id]
                      = <<tasks[u][3].id, tasks[u][2].id>>
                /\ Len(ListResult(u, 1, 2).tasks) = 2
                /\ Len(ListResult(u, 2, 2).tasks) = 1
                /\ ListResult(u, 2, 2).tasks[1].id = tasks[u][1].id

\* Page 2 of per_page 2 has been listed over three tasks of increasing created_at.
C9_Witness ==
    /\ last.op = "list_tasks"
    /\ last.arg = [page |-> 2, per_page |-> 2]
    /\ ThreeIncreasing(last.user_id)
    /\ Len(last.ret.tasks) = 1

\* C10: with n >= 1 tasks and per_page >= 1, every page outside 1..ceil(n/per_page)
\* (beyond the last page, 0, negative) gives no tasks, total = n and the parameters.
C10_OutOfRangeEmpty ==
    \A u \in Users, page \in Pages, pp \in PerPages :
       (/\ NTasks(u) >= 1
        /\ (page < 1 \/ (page - 1) * pp >= NTasks(u))) =>
          /\ ListResult(u, page, pp).tasks = <<>>
          /\ ListResult(u, page, pp).total = NTasks(u)
          /\ ListResult(u, page, pp).page = page
          /\ ListResult(u, page, pp).per_page = pp

----------------------------------------------------------------------------
(* C11: namespaces without tasks *)

\* per_page values of any sign
AnyPerPages == (0 - 1)..MaxPerPage

\* C11: a user without tasks, never touched or with every task deleted, gets
\* {tasks: [], total: 0, page: p, per_page: pp} from list_tasks for any p and pp, None
\* from get_task and get_task_agent, false from task_exists, KeyError from every mutator.
C11_EmptyNamespace ==
    [][\A u \in Users :
          /\ NTasks(u)' = 0 =>
                /\ \A p \in Pages, pp \in AnyPerPages :
                      ListResult(u, p, pp)' = [tasks |-> <<>>, total |-> 0, page |-> p, per_page |-> pp]
                /\ \A t \in TaskIds :
                      /\ GetResult(t, u)'.none
                      /\ AgentResult(t, u)' = None
                      /\ ~task_exists(t, u)'
          /\ (NTasks(u) = 0 /\ last'.user_id = u) =>
                /\ last'.op \in MutatorOps => (last'.raised = "KeyError" /\ NTasks(u)' = 0)
                /\ last'.op = "list_tasks" =>
                      last'.ret = [tasks |-> <<>>, total |-> 0,
                                   page |-> last'.arg.page, per_page |-> last'.arg.per_page]
                /\ last'.op \in {"get_task", "get_task_agent"} => last'.none
                /\ last'.op = "task_exists" => ~last'.ret]_vars

\* list_tasks has been called for the default user after its only task was deleted.
C11_Witness ==
    /\ last.op = "list_tasks"
    /\ last.user_id = DEFAULT_USER_ID
    /\ DEFAULT_USER_ID \in DOMAIN tasks
    /\ tasks[DEFAULT_USER_ID] = <<>>
    /\ last.ret.total = 0

----------------------------------------------------------------------------
(* C12: mark_task_finished *)

\* s is a clock reading in ISO format followed by "Z"
EndsInZ(s) == \E n \in Clock : s = Isoformat(n) \o "Z"

\* after a successful mark_task_finished the task's row of list_tasks carries the status
\* given and the finished_at that get_task shows
MarkFinishedListed ==
    (last.op = "mark_task_finished" /\ last.raised = "") =>
        /\ task_exists(last.task_id, last.user_id)
        /\ \E row \in {FullListing(last.user_id)[i] : i \in 1..NTasks(last.user_id)} :
              /\ row.id = last.task_id
              /\ row.status = last.arg
              /\ row.finished_at # None
              /\ row.finished_at = GetResult(last.task_id, last.user_id).ret.finished_at

\* C12: mark_task_finished on an existing task sets status to the status given and
\* finished_at to a non-empty string ending in "Z", whatever they were; get_task shows
\* no other field changed, list_tasks shows the new status and a finished_at.
C12_MarkFinished ==
    /\ []MarkFinishedListed
    /\ [][\A k \in Users \X TaskIds :
             (/\ last'.op = "mark_task_finished" /\ last'.raised = ""
              /\ last'.user_id = k[1] /\ last'.task_id = k[2]) =>
                LET before == GetResult(k[2], k[1]).ret
                    after  == GetResult(k[2], k[1])'.ret
                IN  /\ task_exists(k[2], k[1])
                    /\ DOMAIN after = DOMAIN before \cup {"status", "finished_at"}
                    /\ \A f \in DOMAIN before \ {"status", "finished_at"} : after[f] = before[f]
                    /\ after.status = last'.arg
                    /\ after.finished_at # ""
                    /\ EndsInZ(after.finished_at)]_vars

\* A task created with status "created" has been marked "failed".
C12_Witness ==
    /\ last.op = "mark_task_finished"
    /\ last.raised = ""
    /\ last.arg = "failed"
    /\ "task" \in DOMAIN GetResult(last.task_id, last.user_id).ret
    /\ GetResult(last.task_id, last.user_id).ret.status = "failed"
    /\ EndsInZ(GetResult(last.task_id, last.user_id).ret.finished_at)

----------------------------------------------------------------------------
(* C13: the read operations *)

\* self._tasks by value: every namespace, its task ids in insertion order, each record
StoreView ==
    [u \in DOMAIN tasks |->
       [i \in 1..Len(tasks[u]) |->
          [id |-> tasks[u][i].id, value |-> ValueIn(dicts, lists, tasks[u][i].ref)]]]

\* C13: get_task, get_task_agent, task_exists and list_tasks return a result without
\* raising, whatever values the stored records hold (created_at may be None), give the
\* absent marker, false or an empty page for what is missing, and leave the store and
\* its set of namespaces unchanged.
C13_ReadsTotal ==
    [][last'.op \in ReadOps =>
          /\ last'.raised = ""
          /\ StoreView' = StoreView
          /\ \A k \in Users \X TaskIds :
                (last'.user_id = k[1] /\ last'.task_id = k[2] /\ ~task_exists(k[2], k[1])) =>
                   /\ last'.op \in {"get_task", "get_task_agent"} => last'.none
                   /\ last'.op = "task_exists" => ~last'.ret
          /\ \A u \in Users :
                (last'.op = "list_tasks" /\ last'.user_id = u /\ NTasks(u) = 0) =>
                   (last'.ret.tasks = <<>> /\ last'.ret.total = 0)]_vars

----------------------------------------------------------------------------
(* C14: create_task and delete_task repeated *)

\* the record r without its agent field
MinusAgent(r) == [f \in DOMAIN r \ {"agent"} |-> r[f]]

\* C14: create_task repeated with the same record leaves the store as the first call left
\* it; after create_task get_task returns the record given minus agent and get_task_agent
\* its agent, with nothing of an earlier record surviving; delete_task repeated returns
\* false and leaves the store as the first call left it.
C14_CreateDeleteIdempotent ==
    [][/\ last'.op = "create_task" =>
             /\ \A k \in Users \X TaskIds :
                   (last'.user_id = k[1] /\ last'.task_id = k[2]) =>
                      /\ ~GetResult(k[2], k[1])'.none
                      /\ GetResult(k[2], k[1])'.ret = MinusAgent(last'.arg)
                      /\ AgentResult(k[2], k[1])' = DictGet(last'.arg, "agent", None)
             /\ (/\ last.op = "create_task" /\ last.user_id = last'.user_id
                 /\ last.task_id = last'.task_id /\ last.arg = last'.arg) =>
                   StoreView' = StoreView
       /\ (/\ last'.op = "delete_task" /\ last.op = "delete_task"
           /\ last.user_id = last'.user_id /\ last.task_id = last'.task_id) =>
             /\ ~last'.ret
             /\ StoreView' = StoreView]_vars

\* create_task, delete_task and delete_task again on the default user's task
C14_Witness ==
    /\ last.op = "delete_task"
    /\ ~last.ret
    /\ last.user_id = DEFAULT_USER_ID
    /\ DOMAIN tasks = {DEFAULT_USER_ID}
    /\ tasks[DEFAULT_USER_ID] = <<>>
    /\ nops = 3

----------------------------------------------------------------------------
(* C15: a mutator repeated *)

\* the call made last repeats the call before it: the same mutator, on the same task,
\* with the same argument, both without raising
Repeated ==
    /\ last'.op \in MutatorOps
    /\ last.op = last'.op
    /\ last.user_id = last'.user_id /\ last.task_id = last'.task_id
    /\ last.raised = "" /\ last'.raised = ""
    /\ last.arg = last'.arg

\* C15 as claimed: each of the eight mutators, applied a second time in a row with the same
\* arguments to an existing task, leaves a store state different from the one the first
\* application left.
C15_NoMutatorIdempotent ==
    [][Repeated => StoreView' # StoreView]_vars

\* C15: add_task_step and add_task_media applied a second time with the same item append
\* it again, so the state differs; update_task, update_task_status, set_task_agent,
\* set_task_output and set_task_error applied a second time with the same arguments leave
\* the store as it was; mark_task_finished applied a second time changes nothing but
\* finished_at.
C15_OnlyAppendsNotIdempotent ==
    [][Repeated =>
          /\ last'.op \in {"add_task_step", "add_task_media"} =>
                /\ StoreView' # StoreView
                /\ \A k \in Users \X TaskIds :
                      (last'.user_id = k[1] /\ last'.task_id = k[2]) =>
                         \E f \in ListFields :
                            Shown(k[2], k[1], f)' = Append(Shown(k[2], k[1], f), last'.arg)
          /\ last'.op \in {"update_task", "update_task_status", "set_task_agent",
                           "set_task_output", "set_task_error"} =>
                StoreView' = StoreView
          /\ last'.op = "mark_task_finished" =>
                \A k \in Users \X TaskIds :
                   /\ task_exists(k[2], k[1])' = task_exists(k[2], k[1])
                   /\ AgentResult(k[2], k[1])' = AgentResult(k[2], k[1])
                   /\ DOMAIN GetResult(k[2], k[1])'.ret = DOMAIN GetResult(k[2], k[1]).ret
                   /\ \A f \in DOMAIN GetResult(k[2], k[1]).ret \ {"finished_at"} :
                         GetResult(k[2], k[1])'.ret[f] = GetResult(k[2], k[1]).ret[f]]_vars

\* the same step added twice in a row to the task created just before
C15_Witness ==
    /\ last.op = "add_task_step"
    /\ last.raised = ""
    /\ run.steps_ok
    /\ Len(run.steps) = 2
    /\ run.steps[1] = run.steps[2]
    /\ Shown(run.task_id, run.user_id, "steps")
          = <<run.steps[1], run.steps[1]>>

----------------------------------------------------------------------------
(* C16: removal *)

\* C16: a task that create_task stored exists, and get_task returns it, over every step
\* that is not delete_task of that very task: operations on other tasks and users,
\* mutators and reads of the task itself, create_task of it again.
C16_RemovedOnlyByDelete ==
    [][\A k \in Users \X TaskIds :
          /\ (last'.op = "create_task" /\ last'.user_id = k[1] /\ last'.task_id = k[2]) =>
                (task_exists(k[2], k[1])' /\ ~GetResult(k[2], k[1])'.none)
          /\ (/\ task_exists(k[2], k[1])
              /\ ~(last'.op = "delete_task" /\ last'.user_id = k[1] /\ last'.task_id = k[2])) =>
                (task_exists(k[2], k[1])' /\ ~GetResult(k[2], k[1])'.none)]_vars

\* alice's task t1 is still there after her task t2 was deleted
C16_Witness ==
    /\ last.op = "delete_task"
    /\ last.ret
    /\ last.user_id = "alice"
    /\ last.task_id = "t2"
    /\ task_exists("t1", "alice")
    /\ ~GetResult("t1", "alice").none
    /\ ~task_exists("t2", "alice")

----------------------------------------------------------------------------
(* C17: concurrent callers *)

\* C17: when every call runs atomically, each add_task_step that returned without error
\* appended to the record the store held, and while the task exists its steps hold the
\* step of every such call; without synchronisation a step can be lost (C17_Witness,
\* C17_OrphanStep).
C17_AtomicKeepsSteps ==
    thr.sync =>
        \A x \in Adders :
           thr.pc[x] = "ok" =>
              /\ thr.landed[x]
              /\ task_exists(ConcTask, ConcUser) =>
                    \E i \in 1..Len(Shown(ConcTask, ConcUser, "steps")) :
                       Shown(ConcTask, ConcUser, "steps")[i] = Payload(x)

\* no lock: both add_task_step calls returned without error on the task that had no
\* steps field, no delete_task ran, and one step only is stored
C17_Witness ==
    /\ ~thr.sync
    /\ thr.pc["A"] = "ok" /\ thr.pc["B"] = "ok"
    /\ thr.pc["D"] = "idle"
    /\ task_exists(ConcTask, ConcUser)
    /\ Len(Shown(ConcTask, ConcUser, "steps")) = 1

\* no lock: delete_task ran between the existence check of an add_task_step and its
\* append; the call returned without error and its step is in no stored record
C17_OrphanStep ==
    /\ ~thr.sync
    /\ thr.pc["A"] = "ok"
    /\ ~thr.landed["A"]
    /\ thr.pc["D"] = "true"
    /\ ~task_exists(ConcTask, ConcUser)

----------------------------------------------------------------------------
(* C18: what a mutator changes *)

\* the record stored under (u, t), agent included; empty when the task is missing
TaskValue(t, u) ==
    IF task_exists(t, u) THEN ValueIn(dicts, lists, TaskRef(t, u)) ELSE EmptyDict

\* the fields the call c is to change
Targets(c) ==
    CASE c.op = "update_task" -> DOMAIN c.arg
      [] c.op = "update_task_status" -> {"status"}
      [] c.op = "set_task_output" -> {"output"}
      [] c.op = "set_task_error" -> {"error"}
      [] c.op = "set_task_agent" -> {"agent"}
      [] c.op = "add_task_step" -> {"steps"}
      [] c.op = "add_task_media" -> {"media"}
      [] c.op = "mark_task_finished" -> {"status", "finished_at"}

\* C18: a successful mutator on an existing task changes only its target fields of that
\* task (update_task the fields of the partial record, removing none): every other field
\* of the task, every other task of the user, every task of every other user and the
\* set of existing (user, task) pairs are unchanged.
C18_MutatorFrame ==
    [][\A k \in Users \X TaskIds :
          (/\ last'.op \in MutatorOps /\ last'.raised = ""
           /\ last'.user_id = k[1] /\ last'.task_id = k[2]) =>
             /\ DOMAIN tasks' = DOMAIN tasks
             /\ \A j \in Users \X TaskIds :
                   /\ task_exists(j[2], j[1])' = task_exists(j[2], j[1])
                   /\ j # k => TaskValue(j[2], j[1])' = TaskValue(j[2], j[1])
             /\ DOMAIN TaskValue(k[2], k[1]) \subseteq DOMAIN TaskValue(k[2], k[1])'
             /\ DOMAIN TaskValue(k[2], k[1])' \subseteq DOMAIN TaskValue(k[2], k[1]) \cup Targets(last')
             /\ \A f \in DOMAIN TaskValue(k[2], k[1]) \ Targets(last') :
                   TaskValue(k[2], k[1])'[f] = TaskValue(k[2], k[1])[f]
             /\ last'.op = "update_task" =>
                   \A f \in DOMAIN last'.arg : TaskValue(k[2], k[1])'[f] = last'.arg[f]]_vars

----------------------------------------------------------------------------
(* C19: the agent handle *)

\* the call c stores or removes the agent handle of (u, t)
WritesAgent(c, t, u) ==
    /\ c.user_id = u /\ c.task_id = t /\ c.raised = ""
    /\ \/ c.op \in {"set_task_agent", "create_task"}
       \/ c.op = "update_task" /\ "agent" \in DOMAIN c.arg
       \/ c.op = "delete_task" /\ c.ret

\* C19: get_task_agent returns the handle stored last for the task by set_task_agent,
\* by update_task with an agent field or by create_task, None when the task is missing
\* or was deleted or created without agent; no other call of the store changes what it
\* returns for the task.
C19_AgentLatest ==
    [][\A k \in Users \X TaskIds :
          /\ ~task_exists(k[2], k[1])' => AgentResult(k[2], k[1])' = None
          /\ WritesAgent(last', k[2], k[1]) =>
                AgentResult(k[2], k[1])' =
                   CASE last'.op = "set_task_agent" -> last'.arg
                     [] last'.op = "update_task" -> last'.arg["agent"]
                     [] last'.op = "create_task" -> DictGet(last'.arg, "agent", None)
                     [] last'.op = "delete_task" -> None
          /\ (/\ ~WritesAgent(last', k[2], k[1])
              /\ last'.op \notin {"caller_set", "caller_del", "caller_append"}) =>
                AgentResult(k[2], k[1])' = AgentResult(k[2], k[1])]_vars

----------------------------------------------------------------------------
(* C20: the caller's record *)

\* C20: after create_task the caller's changes to the record it passed (a field set or
\* removed, an item appended to its steps or media) change nothing of what get_task,
\* get_task_agent and list_tasks return, and the mutators of the store do not change the
\* caller's record.
C20_RecordOwnedByStore ==
    [][/\ (last'.op \in {"caller_set", "caller_del", "caller_append"} /\ last'.arg = "rec") =>
             /\ StoreView' = StoreView
             /\ \A k \in Users \X TaskIds :
                   /\ GetResult(k[2], k[1])' = GetResult(k[2], k[1])
                   /\ AgentResult(k[2], k[1])' = AgentResult(k[2], k[1])
       /\ (last'.op \in MutatorOps /\ rec # 0) =>
             /\ rec' = rec
             /\ ValueIn(dicts, lists, rec)' = ValueIn(dicts, lists, rec)]_vars

====
